---- MODULE Spec2Model ----
(***************************************************************************)
(* id2xml/run.py: the command-line entry point run().                      *)
(*                                                                         *)
(* Two specifications:                                                     *)
(*   SpecArgs  argparse filling the options namespace (schema selection)   *)
(*   Spec      run() from the option checks to the end of the DRAFT loop.  *)
(*             The run is modelled twice over the same options and the     *)
(*             same environment, once with options.quiet unset and once    *)
(*             with it set: run[FALSE] and run[TRUE].                      *)
(***************************************************************************)
EXTENDS Integers, Sequences, FiniteSets, TLC

VARIABLES
    conf,       \* SpecArgs: the value the configuration file presets for schema
    argv,       \* SpecArgs: option strings not yet consumed by parse_args
    given,      \* SpecArgs: the option strings of the command line
    ns,         \* SpecArgs: the namespace parse_args fills (Options(**conf))
    apc,        \* SpecArgs: position in parse_args
    options,    \* Spec: the parsed options (all but quiet)
    fs0,        \* Spec: the output files on disk when run() starts
    run         \* Spec: run[q] is the state of the run with options.quiet = q

vars == <<conf, argv, given, ns, apc, options, fs0, run>>

\* ---------------------------------------------------------------- bounds
MaxDrafts == 2          \* DRAFT files on a command line
MaxArgs == 3            \* option strings on a command line (SpecArgs)

\* ------------------------------------------------------- python values
None == "None"                      \* Python's None: option not supplied
Truthy(v) == v # None /\ v # ""     \* `if v:` for v a string or None

NL == "\n"

RECURSIVE SeqsUpTo(_, _)
SeqsUpTo(S, n) ==
    IF n = 0 THEN {<<>>}
    ELSE LET shorter == SeqsUpTo(S, n - 1)
         IN  shorter \cup {Append(s, x) : s \in {t \in shorter : Len(t) = n - 1}, x \in S}

\* ------------------------------------------------------------ pathlib2
\* A Path is its parent directory, stem and suffix.
MkPath(d, st, su) == [dir |-> d, stem |-> st, suffix |-> su]
NoPath == MkPath("", "", "")

\* Path(s) for the strings that occur as DRAFT or -o values
Path(s) ==
    CASE s = "a.txt"   -> MkPath(".", "a", ".txt")
      [] s = "s/a.txt" -> MkPath("s", "a", ".txt")
      [] s = "o.xml"   -> MkPath(".", "o", ".xml")
      [] s = "-"       -> MkPath(".", "-", "")
      [] OTHER         -> MkPath(".", "", "")

\* PurePath.name
Name(p) == <<p.stem, p.suffix>>

\* PurePath.with_suffix(suffix)
WithSuffix(p, su) == [p EXCEPT !.suffix = su]

\* Path(dir) / name
Under(d, st, su) == MkPath(d, st, su)

\* ------------------------------------------------- collaborators (utils)
\* utils.stream_names
stream_names == {"IETF", "IAB", "IRTF", "independent"}

\* a line of the running header/footer, or a form feed
IsPageArtifact(t) == t = <<"#">> \/ t = <<"^">>

\* the numbered source lines of a text
Numbered(txt) == [n \in 1..Len(txt) |-> [num |-> n, txt |-> txt[n]]]

\* utils.strip_pagebreaks: the lines that are no page artifacts, numbering kept
strip_pagebreaks(txt) == SelectSeq(Numbered(txt), LAMBDA l : ~IsPageArtifact(l.txt))

RECURSIVE Flatten(_)
Flatten(ss) == IF ss = <<>> THEN <<>> ELSE Head(ss) \o Flatten(Tail(ss))

\* parser.DraftParser(name, txt, options).parse_to_xml()
parse_to_xml(name, txt, schema) ==
    <<"<rfc>", schema, name[1]>> \o Flatten([n \in 1..Len(strip_pagebreaks(txt)) |->
                                               strip_pagebreaks(txt)[n].txt])
                                 \o <<"</rfc>">>

\* ----------------------------------------------------- the environment
Inputs == {"a.txt", "s/a.txt"}

\* what file.read() returns for each DRAFT, as the texts of its lines
TextOf(f) ==
    IF f = "a.txt"
    THEN << <<"x", "y">>, <<>>, <<"#">>, <<"^">>, <<"#">>, <<"y">> >>
    ELSE << <<"#">>, <<"^">> >>

OldText == <<"old">>

OutputPaths == {MkPath(d, "a", su) : d \in {".", "s", "d"}, su \in {".xml", ".raw"}}
                 \cup {Path("o.xml")}

\* the sets of output files that may exist before the run
StaleSets == {{}, {MkPath(".", "a", ".xml")}, OutputPaths}

StdoutPath == MkPath("", "<stdout>", "")

\* --------------------------------------------------------- run(): state
Msg(k, w, n) == [kind |-> k, what |-> w, name |-> n]
Ev(o, i, t, x) == [op |-> o, file |-> i, target |-> t, text |-> x]

InitRun(fs) ==
    [pc |-> "version", i |-> 0, outf |-> NoPath, txt |-> <<>>, lines |-> <<>>,
     xml |-> <<>>, handles |-> {}, fs |-> fs, stdout |-> <<>>,
     stdoutClosed |-> FALSE, stderr |-> <<>>, log |-> <<>>, exit |-> -1]

\* the loop variable `inf`
Inf(r) == Path(options.DRAFT[r.i])

\* variant: the note is written whatever options.quiet says
noteAlways(r, q, w, n) == [r EXCEPT !.stderr = Append(@, Msg("note", w, n))]

\* note(s)
note(r, q, w, n) == IF q THEN r ELSE [r EXCEPT !.stderr = Append(@, Msg("note", w, n))]

\* die(s, error=1)
die(r, w, n) ==
    [r EXCEPT !.stderr = Append(@, Msg("die", w, n)), !.exit = 1, !.pc = "done"]

\* variant: the file is left open
CloseNone(r) == r

\* a `with` block is left: its file is closed
CloseAll(r) ==
    [r EXCEPT !.handles = {},
              !.stdoutClosed = @ \/ (\E h \in r.handles : h.target = StdoutPath),
              !.log = @ \o (IF r.handles = {} THEN <<>>
                            ELSE <<Ev("close", r.i, (CHOOSE h \in r.handles : TRUE).target, <<>>)>>)]

\* an exception leaves the try block, closing the file of an open `with`
Raised(r, cause) == [CloseAll(r) EXCEPT !.log = Append(@, Ev("raise", r.i, NoPath, <<cause>>))]

\* variant: the exception is re-raised without a report
ExceptSilent(r, cause) ==
    [r EXCEPT !.stderr = Append(@, Msg("traceback", cause, <<>>)), !.exit = 1, !.pc = "done"]

\* variant: the exception is reported and the loop goes on to the next file
ExceptContinue(r, cause) ==
    [r EXCEPT !.stderr = Append(@, Msg("failure", cause, Name(Inf(r)))), !.pc = "loop"]

\* except Exception as e: report, re-raise; the interpreter prints the
\* traceback and exits with status 1
Except(r, cause) ==
    [r EXCEPT
        !.stderr = @ \o <<Msg("failure", cause, Name(Inf(r))),
                          Msg("traceback", cause, <<>>)>>,
        !.exit = 1, !.pc = "done"]

Reraise(r, cause) == Except(Raised(r, cause), cause)

output_suffix == IF options.strip_only THEN ".raw" ELSE ".xml"

ToStdout == options.output_file = "-"

\* ---------------------------------------------------- run(): the steps
\* if options.version
DoVersion(r, q) ==
    IF options.version
    THEN [r EXCEPT !.stdout = Append(@, "version"), !.exit = 0, !.pc = "done"]
    ELSE [r EXCEPT !.pc = "outopts"]

\* variant: the two options together are reported, and the run goes on
DoOutputOptionsWarn(r, q) ==
    IF Truthy(options.output_path) /\ Truthy(options.output_file)
    THEN [r EXCEPT !.stderr = Append(@, Msg("die", "mutually exclusive -o / -p", <<>>)),
                   !.pc = "stream"]
    ELSE [r EXCEPT !.pc = "stream"]

\* if options.output_path and options.output_file
DoOutputOptions(r, q) ==
    IF Truthy(options.output_path) /\ Truthy(options.output_file)
    THEN die(r, "mutually exclusive -o / -p", <<>>)
    ELSE [r EXCEPT !.pc = "stream"]

\* if options.doc_stream: if not options.doc_stream in stream_names
DoStream(r, q) ==
    IF Truthy(options.doc_stream) /\ options.doc_stream \notin stream_names
    THEN die(r, "stream", <<>>)
    ELSE [r EXCEPT !.pc = "trace"]

\* trace start condition without a trace stop condition
DoTrace(r, q) ==
    IF options.trace_start /\ ~options.trace_stop
    THEN die(r, "trace", <<>>)
    ELSE [r EXCEPT !.pc = "loop"]

\* for file in options.DRAFT
DoLoop(r, q) ==
    IF r.i < Len(options.DRAFT)
    THEN [r EXCEPT !.i = @ + 1, !.pc = "derive"]
    ELSE [r EXCEPT !.exit = 0, !.pc = "done"]

\* variant: the implied output file is used whether it exists or not
DoImpliedOverwrite(r, q, e) ==
    [r EXCEPT !.outf = WithSuffix(Inf(r), output_suffix), !.pc = "read"]

\* the implied output file: refuse to overwrite unless stripping
DoImplied(r, q, e) ==
    LET outf == WithSuffix(Inf(r), output_suffix)
        r1 == [r EXCEPT !.outf = outf]
    IN  IF options.strip_only THEN [r1 EXCEPT !.pc = "read"]
        ELSE IF e = "fail" THEN Reraise(r1, "stat")
        ELSE IF outf \in DOMAIN r.fs THEN die(r1, "exists", Name(outf))
        ELSE [r1 EXCEPT !.pc = "read"]

\* inf = Path(file); outf = ...
DoDerive(r, q, e) ==
    IF Truthy(options.output_file)
    THEN [r EXCEPT !.outf = Path(options.output_file), !.pc = "read"]
    ELSE IF Truthy(options.output_path)
    THEN [r EXCEPT !.outf = Under(options.output_path, Inf(r).stem, output_suffix),
                   !.pc = "read"]
    ELSE DoImplied(r, q, e)

\* outf.open('w'): the file is created or truncated
Truncate(fs, p) == [x \in DOMAIN fs \cup {p} |-> IF x = p THEN <<>> ELSE fs[x]]

\* variant: the output file is opened before the input is read
DoReadOpenFirst(r, q, e) ==
    LET r0 == [r EXCEPT !.fs = Truncate(@, r.outf),
                        !.log = Append(@, Ev("open_w", r.i, r.outf, <<>>))]
        opened == [r0 EXCEPT !.log = Append(@, Ev("open_r", r.i, Inf(r), <<>>)),
                             !.handles = @ \cup {[file |-> r.i, target |-> Inf(r)]}]
    IN  CASE e = "open_fail" -> Reraise(r0, "open_r")
          [] e = "read_fail" -> Reraise(opened, "read")
          [] OTHER ->
               [CloseAll([opened EXCEPT !.log = Append(@, Ev("read", r.i, Inf(r), <<>>))])
                   EXCEPT !.txt = TextOf(options.DRAFT[r.i]), !.pc = "process"]

\* with inf.open() as file: txt = file.read()
DoRead(r, q, e) ==
    LET opened == [r EXCEPT !.log = Append(@, Ev("open_r", r.i, Inf(r), <<>>)),
                            !.handles = @ \cup {[file |-> r.i, target |-> Inf(r)]}]
    IN  CASE e = "open_fail" -> Reraise(r, "open_r")
          [] e = "read_fail" -> Reraise(opened, "read")
          [] OTHER ->
               [CloseAll([opened EXCEPT !.log = Append(@, Ev("read", r.i, Inf(r), <<>>))])
                   EXCEPT !.txt = TextOf(options.DRAFT[r.i]), !.pc = "process"]

\* note(" Stripping ..."); lines, __ = strip_pagebreaks(txt)
DoStrip(r, q, e) ==
    LET r1 == note(r, q, "Stripping", Name(Inf(r)))
        r2 == [r1 EXCEPT !.log = Append(@, Ev("strip", r.i, Inf(r), <<>>))]
    IN  IF e = "fail" THEN Reraise(r2, "strip")
        ELSE [r2 EXCEPT !.lines = strip_pagebreaks(r.txt), !.pc = "open"]

\* note(" Converting ..."); parser = DraftParser(...); xml = parser.parse_to_xml()
DoConvert(r, q, e) ==
    LET r1 == note(r, q, "Converting", Name(Inf(r)))
        r2 == [r1 EXCEPT !.log = Append(@, Ev("parse", r.i, Inf(r), <<options.schema>>))]
    IN  IF e = "fail" THEN Reraise(r2, "parse")
        ELSE [r2 EXCEPT !.xml = parse_to_xml(Name(Inf(r)), r.txt, options.schema),
                        !.pc = "open"]

\* with (sys.stdout if options.output_file=='-' else outf.open('w')) as out
DoOpen(r, q, e) ==
    IF ToStdout
    THEN IF r.stdoutClosed THEN Reraise(r, "closed file")
         ELSE [r EXCEPT !.handles = @ \cup {[file |-> r.i, target |-> StdoutPath]},
                        !.log = Append(@, Ev("open_w", r.i, StdoutPath, <<>>)),
                        !.pc = "write"]
    ELSE IF e = "fail" THEN Reraise(r, "open_w")
         ELSE [r EXCEPT !.fs = Truncate(@, r.outf),
                        !.handles = @ \cup {[file |-> r.i, target |-> r.outf]},
                        !.log = Append(@, Ev("open_w", r.i, r.outf, <<>>)),
                        !.pc = "write"]

RECURSIVE JoinNL(_)
\* '\n'.join(ss)
JoinNL(ss) ==
    IF ss = <<>> THEN <<>>
    ELSE IF Len(ss) = 1 THEN ss[1]
    ELSE ss[1] \o <<NL>> \o JoinNL(Tail(ss))

\* [l.txt for l in lines]
Texts(lines) == [n \in 1..Len(lines) |-> lines[n].txt]

\* the argument of the first out.write
FirstWrite(r) == IF options.strip_only THEN JoinNL(Texts(r.lines)) ELSE r.xml

\* variant: no second write
SecondWriteNone(r) == <<>>

\* the argument of the second out.write (strip-only)
SecondWrite(r) == IF options.strip_only THEN <<NL>> ELSE <<>>

\* what reached the output when the with block is left
Written(r, e) ==
    CASE e = "fail_first"  -> <<>>
      [] e = "fail_second" -> FirstWrite(r)
      [] OTHER             -> FirstWrite(r) \o SecondWrite(r)

\* out.write(...); [out.write('\n')]; leave the with block; note(" Written to ...")
DoWrite(r, q, e) ==
    LET w  == Written(r, e)
        t  == IF ToStdout THEN StdoutPath ELSE r.outf
        r1 == IF ToStdout THEN [r EXCEPT !.stdout = @ \o w]
              ELSE [r EXCEPT !.fs = [@ EXCEPT ![r.outf] = @ \o w]]
    IN  IF e = "ok"
        THEN [note(CloseAll([r1 EXCEPT !.log = Append(@, Ev("write", r.i, t, w))]),
                   q, "Written to", Name(t))
                EXCEPT !.pc = "loop"]
        ELSE Reraise(r1, "write")

\* ----------------------------------------------- argparse (SpecArgs)
Unset == "<unset>"          \* the namespace has no such attribute

\* -2/--v2 and -3/--v3
SchemaSwitches == {"-2", "--v2", "-3", "--v3"}

\* the option strings of the model: both schema switches and -q
ArgStrings == {"-2", "--v2", "-3", "--v3", "-q"}

\* values a configuration file may preset for `schema`
ConfSchemas == {Unset, "v2", "v3", "v9"}

\* options = Options(**conf): the presets become attributes of the namespace
Options(c) == [schema |-> c, quiet |-> Unset]

\* parse_args sets a default only where the namespace has no attribute yet;
\* group.set_defaults(schema='v2'), store_true defaults to False
SetDefaults(n) ==
    [schema |-> IF n.schema = Unset THEN "v2" ELSE n.schema,
     quiet  |-> IF n.quiet = Unset THEN "False" ELSE n.quiet]

\* variant: both schema switches store the same constant
TakeOptionSameConst(n, a) ==
    CASE a \in SchemaSwitches -> [n EXCEPT !.schema = "v2"]
      [] a = "-q"             -> [n EXCEPT !.quiet = "True"]
      [] OTHER                -> n

\* the action of one option string: store_const into dest, or store_true
TakeOption(n, a) ==
    CASE a \in {"-2", "--v2"} -> [n EXCEPT !.schema = "v2"]
      [] a \in {"-3", "--v3"} -> [n EXCEPT !.schema = "v3"]
      [] a = "-q"             -> [n EXCEPT !.quiet = "True"]
      [] OTHER                -> n

RECURSIVE TakeAll(_, _)
TakeAll(n, as) == IF as = <<>> THEN n ELSE TakeAll(TakeOption(n, Head(as)), Tail(as))

\* options = parser.parse_args(namespace=options)
parse_args(n, as) == TakeAll(SetDefaults(n), as)

\* every schema value run() can find in options.schema
ParsedSchemas ==
    {parse_args(Options(c), as).schema : c \in ConfSchemas, as \in SeqsUpTo(ArgStrings, MaxArgs)}

NoOptions ==
    [version |-> TRUE, output_file |-> None, output_path |-> None, strip_only |-> FALSE,
     doc_stream |-> None, trace_start |-> FALSE, trace_stop |-> FALSE,
     schema |-> "v2", DRAFT |-> <<>>]

InitArgs ==
    /\ given \in SeqsUpTo(ArgStrings, MaxArgs)
    /\ argv = given
    /\ conf \in ConfSchemas
    /\ ns = Options(conf)
    /\ apc = "defaults"
    /\ options = NoOptions
    /\ fs0 = <<>>
    /\ run = [q \in BOOLEAN |-> InitRun(<<>>)]

ApplyDefaults ==
    /\ apc = "defaults"
    /\ ns' = SetDefaults(ns)
    /\ apc' = "options"
    /\ UNCHANGED <<conf, argv, given, options, fs0, run>>

ConsumeOption ==
    /\ apc = "options"
    /\ argv # <<>>
    /\ ns' = TakeOption(ns, Head(argv))
    /\ argv' = Tail(argv)
    /\ UNCHANGED <<conf, given, apc, options, fs0, run>>

ParseDone ==
    /\ apc = "options"
    /\ argv = <<>>
    /\ apc' = "parsed"
    /\ UNCHANGED <<conf, argv, given, ns, options, fs0, run>>

NextArgs == ApplyDefaults \/ ConsumeOption \/ ParseDone

SpecArgs == InitArgs /\ [][NextArgs]_vars

\* ------------------------------------------------------- run(): Spec
OptionValues ==
    [version     : BOOLEAN,
     output_file : {None, "", "-", "o.xml"},
     output_path : {None, "", "d"},
     strip_only  : BOOLEAN,
     doc_stream  : {None, "", "IRTF", "bogus"},
     trace_start : BOOLEAN,
     trace_stop  : BOOLEAN,
     schema      : ParsedSchemas,
     DRAFT       : SeqsUpTo(Inputs, MaxDrafts)]

Init ==
    /\ options \in OptionValues
    /\ \E st \in StaleSets : fs0 = [p \in st |-> OldText]
    /\ run = [q \in BOOLEAN |-> InitRun(fs0)]
    /\ conf = Unset
    /\ argv = <<>>
    /\ given = <<>>
    /\ ns = Options(Unset)
    /\ apc = "idle"

\* the runs at the position `at` take their step: nxt[q] is the next state of
\* run[q]
Step(at, nxt) ==
    /\ \E q \in BOOLEAN : run[q].pc = at
    /\ run' = [q \in BOOLEAN |-> IF run[q].pc = at THEN nxt[q] ELSE run[q]]
    /\ UNCHANGED <<conf, argv, given, ns, apc, options, fs0>>

CheckVersion == Step("version", [q \in BOOLEAN |-> DoVersion(run[q], q)])

CheckOutputOptions == Step("outopts", [q \in BOOLEAN |-> DoOutputOptions(run[q], q)])

CheckStream == Step("stream", [q \in BOOLEAN |-> DoStream(run[q], q)])

CheckTrace == Step("trace", [q \in BOOLEAN |-> DoTrace(run[q], q)])

NextFile == Step("loop", [q \in BOOLEAN |-> DoLoop(run[q], q)])

DeriveOutput == \E e \in {"ok", "fail"} : Step("derive", [q \in BOOLEAN |-> DoDerive(run[q], q, e)])

ReadInput ==
    \E e \in {"ok", "open_fail", "read_fail"} : Step("read", [q \in BOOLEAN |-> DoRead(run[q], q, e)])

StripOnly ==
    /\ options.strip_only
    /\ \E e \in {"ok", "fail"} : Step("process", [q \in BOOLEAN |-> DoStrip(run[q], q, e)])

Convert ==
    /\ ~options.strip_only
    /\ \E e \in {"ok", "fail"} : Step("process", [q \in BOOLEAN |-> DoConvert(run[q], q, e)])

OpenOutput == \E e \in {"ok", "fail"} : Step("open", [q \in BOOLEAN |-> DoOpen(run[q], q, e)])

WriteOutcomes ==
    IF options.strip_only THEN {"ok", "fail_first", "fail_second"} ELSE {"ok", "fail_first"}

WriteOutput == \E e \in WriteOutcomes : Step("write", [q \in BOOLEAN |-> DoWrite(run[q], q, e)])

Next ==
    \/ CheckVersion
    \/ CheckOutputOptions
    \/ CheckStream
    \/ CheckTrace
    \/ NextFile
    \/ DeriveOutput
    \/ ReadInput
    \/ StripOnly
    \/ Convert
    \/ OpenOutput
    \/ WriteOutput

Spec == Init /\ [][Next]_vars

\* ------------------------------------------------------------ claims
Runs == BOOLEAN

HasMsg(r, k, w) == \E n \in DOMAIN r.stderr : r.stderr[n].kind = k /\ r.stderr[n].what = w

\* no input file was opened or read and no output file opened or written
Untouched(r) == r.log = <<>> /\ r.fs = fs0

\* the run has ended in die(): an error report and a non-zero status
Died(r, w) ==
    /\ r.pc = "done"
    /\ r.exit = 1
    /\ r.stderr # <<>>
    /\ r.stderr[Len(r.stderr)].kind = "die"
    /\ r.stderr[Len(r.stderr)].what = w

\* the option checks, up to and including the stream check
UpToStream == {"version", "outopts", "stream"}

\* C1, as claimed: a run given a stream override that is none of the
\* enumerated stream names, the empty string included, touches no file and
\* does not get past the stream check: it ends in die() with a non-zero
\* status.  (Stated for runs that are no version request.)
C1_StreamRejected ==
    \A q \in Runs :
        (options.doc_stream # None /\ options.doc_stream \notin stream_names
            /\ ~options.version)
        => /\ Untouched(run[q])
           /\ run[q].pc \in UpToStream \cup {"done"}
           /\ run[q].pc = "done" =>
                 Died(run[q], "stream") \/ Died(run[q], "mutually exclusive -o / -p")

\* C2, as claimed: with both -o and -p supplied the run touches no file and
\* ends in die() with a non-zero status, whatever the DRAFT list.
C2_AsClaimed ==
    \A q \in Runs :
        (options.output_file # None /\ options.output_path # None)
        => /\ Untouched(run[q])
           /\ run[q].pc \in {"version", "outopts", "done"}
           /\ run[q].pc = "done" => Died(run[q], "mutually exclusive -o / -p")

\* C2, amended: with both -o and -p supplied with non-empty values, and no
\* version request, the run touches no file, never gets past the check and
\* ends in die() with a non-zero status, whatever the DRAFT list.
C2_MutexRejected ==
    \A q \in Runs :
        (Truthy(options.output_file) /\ Truthy(options.output_path) /\ ~options.version)
        => /\ Untouched(run[q])
           /\ run[q].pc \in {"version", "outopts", "done"}
           /\ run[q].pc = "done" => Died(run[q], "mutually exclusive -o / -p")

C2_Witness ==
    /\ Truthy(options.output_file) /\ Truthy(options.output_path) /\ ~options.version
    /\ Len(options.DRAFT) = MaxDrafts
    /\ \A q \in Runs : Died(run[q], "mutually exclusive -o / -p")

\* the texts of the lines, each followed by a newline; a lone newline if none
Terminated(ts) == IF ts = <<>> THEN <<NL>> ELSE Flatten([n \in 1..Len(ts) |-> ts[n] \o <<NL>>])

\* the text strip-only mode is to write for the DRAFT f
StrippedText(f) == Terminated(Texts(strip_pagebreaks(TextOf(f))))

\* C3: in strip-only mode every completed write carries exactly the texts of
\* the lines strip_pagebreaks returned for that file, in order, newline-joined
\* and newline-terminated; that text is what the output file then holds; the
\* DraftParser is never invoked and no XML is written.
C3_StripOutput ==
    \A q \in Runs :
        options.strip_only =>
            /\ \A k \in DOMAIN run[q].log :
                  /\ run[q].log[k].op # "parse"
                  /\ run[q].log[k].op = "write" =>
                        run[q].log[k].text = StrippedText(options.DRAFT[run[q].log[k].file])
            /\ (run[q].pc = "loop" /\ run[q].i > 0 /\ ~ToStdout) =>
                  run[q].fs[run[q].outf] = StrippedText(options.DRAFT[run[q].i])
            /\ run[q].xml = <<>>

C3_Witness ==
    /\ options.strip_only
    /\ \E q \in Runs :
          /\ run[q].pc = "done" /\ run[q].exit = 0
          /\ \E k, l \in DOMAIN run[q].log :
                /\ run[q].log[k].op = "write" /\ Len(run[q].log[k].text) > 2
                /\ run[q].log[l].op = "write" /\ run[q].log[l].text = <<NL>>

C5_Sequential ==
    \A q \in Runs :
        /\ \A k, l \in DOMAIN run[q].log :
              k < l => run[q].log[k].file <= run[q].log[l].file
        /\ \A h \in run[q].handles : h.file = run[q].i
        /\ \A l \in DOMAIN run[q].log :
              \A i \in 1..(run[q].log[l].file - 1) :
                 \E k \in 1..(l - 2) :
                    /\ run[q].log[k].file = i /\ run[q].log[k].op = "write"
                    /\ run[q].log[k + 1].file = i /\ run[q].log[k + 1].op = "close"

C5_Witness ==
    \E q \in Runs :
        /\ run[q].pc = "write"
        /\ run[q].i = 2
        /\ run[q].handles # {}

NonNotes(ms) == SelectSeq(ms, LAMBDA m : m.kind # "note")

Protected(r) ==
    /\ \A p \in DOMAIN fs0 : p \in DOMAIN r.fs /\ r.fs[p] = fs0[p]
    /\ \A k \in DOMAIN r.log :
          r.log[k].op = "open_w" =>
             /\ r.log[k].target \notin DOMAIN fs0
             /\ \A j \in 1..(k - 1) :
                   ~(r.log[j].op = "open_w" /\ r.log[j].target = r.log[k].target)
    /\ r.pc \in {"read", "process", "open"} => r.outf \notin DOMAIN r.fs
    /\ HasMsg(r, "die", "exists") =>
          /\ Died(r, "exists")
          /\ r.outf \in DOMAIN r.fs
          /\ \A k \in DOMAIN r.log : r.log[k].file # r.i

\* C7, as claimed: converting with neither -o nor -p given, an existing implied
\* output file is never opened for writing or modified and its input is not
\* read: the run ends with an error.  In strip-only mode, or with -o or -p
\* given, there is no existence check.
C7_AsClaimed ==
    \A q \in Runs :
        /\ (~options.strip_only /\ options.output_file = None /\ options.output_path = None)
              => Protected(run[q])
        /\ (options.strip_only \/ options.output_file # None \/ options.output_path # None)
              => ~HasMsg(run[q], "die", "exists")

\* C7, amended: as claimed, where an option is given when it has a non-empty
\* value: an empty -o or -p value counts as not given.
C7_NoOverwrite ==
    \A q \in Runs :
        /\ (~options.strip_only /\ ~Truthy(options.output_file) /\ ~Truthy(options.output_path))
              => Protected(run[q])
        /\ (options.strip_only \/ Truthy(options.output_file) \/ Truthy(options.output_path))
              => ~HasMsg(run[q], "die", "exists")

C7_Witness ==
    \E q \in Runs :
        /\ Died(run[q], "exists")
        /\ run[q].i = 2
        /\ run[q].outf \in DOMAIN fs0
        /\ run[q].fs[run[q].outf] = OldText

\* the positions of the schema switches on the command line
SwitchPositions == {k \in DOMAIN given : given[k] \in SchemaSwitches}

\* the schema the last schema switch names
LastNamed ==
    LET k == CHOOSE x \in SwitchPositions : \A y \in SwitchPositions : y <= x
    IN  IF given[k] \in {"-2", "--v2"} THEN "v2" ELSE "v3"

\* C8, as claimed: the schema is v2 when the command line has no schema
\* switch, otherwise what the last of its schema switches names; it is always
\* v2 or v3.
C8_AsClaimed ==
    apc = "parsed" =>
        /\ ns.schema = IF SwitchPositions = {} THEN "v2" ELSE LastNamed
        /\ ns.schema \in {"v2", "v3"}

\* C8, amended: when the command line has no schema switch the schema is the
\* value the configuration presets, and v2 if it presets none; otherwise it is
\* what the last schema switch names.  It is v2 or v3 unless the configuration
\* presets another value and no schema switch is given.
C8_SchemaSelected ==
    apc = "parsed" =>
        /\ ns.schema = IF SwitchPositions # {} THEN LastNamed
                       ELSE IF conf = Unset THEN "v2" ELSE conf
        /\ (SwitchPositions # {} \/ conf \in {Unset, "v2", "v3"}) => ns.schema \in {"v2", "v3"}

C8_Witness ==
    /\ apc = "parsed"
    /\ Cardinality(SwitchPositions) >= 2
    /\ given[1] \in {"-3", "--v3"}
    /\ ns.schema = "v2"
    /\ conf = "v3"

\* the write at l is the last one to its target by a file before the i-th
LastWriteBefore(r, l, i) ==
    /\ r.log[l].op = "write"
    /\ r.log[l].file < i
    /\ r.log[l].target # StdoutPath
    /\ \A m \in DOMAIN r.log :
          (m > l /\ r.log[m].op = "write" /\ r.log[m].file < i)
             => r.log[m].target # r.log[l].target

\* the i-th file has opened the path t for writing
OpenedBy(r, i, t) ==
    \E m \in DOMAIN r.log :
        r.log[m].op = "open_w" /\ r.log[m].file = i /\ r.log[m].target = t

\* an exception ends the run: no step follows it, on this or a later file
HaltsAt(r, k) ==
    /\ k = Len(r.log)
    /\ r.pc = "done" /\ r.exit = 1
    /\ HasMsg(r, "failure", r.log[k].text[1])
    /\ \A l \in DOMAIN r.log : r.log[l].file <= r.log[k].file

\* C9, as claimed: an exception while processing the i-th file is reported and
\* ends the run, no later file is touched, and every output written for the
\* files before the i-th still holds what was written to it.
C9_AsClaimed ==
    \A q \in Runs : \A k \in DOMAIN run[q].log :
        run[q].log[k].op = "raise" =>
            /\ HaltsAt(run[q], k)
            /\ \A l \in DOMAIN run[q].log :
                  LastWriteBefore(run[q], l, run[q].log[k].file)
                     => run[q].fs[run[q].log[l].target] = run[q].log[l].text

\* C9, amended: as claimed, except that an output of an earlier file is not
\* preserved when the i-th file writes to the same path and had already
\* opened it for writing before it failed.
C9_HaltOnFailure ==
    \A q \in Runs : \A k \in DOMAIN run[q].log :
        run[q].log[k].op = "raise" =>
            /\ HaltsAt(run[q], k)
            /\ \A l \in DOMAIN run[q].log :
                  (/\ LastWriteBefore(run[q], l, run[q].log[k].file)
                   /\ ~OpenedBy(run[q], run[q].log[k].file, run[q].log[l].target))
                     => run[q].fs[run[q].log[l].target] = run[q].log[l].text

C9_Witness ==
    \E q \in Runs :
        /\ Len(run[q].log) > 2
        /\ run[q].log[Len(run[q].log)] = Ev("raise", 2, NoPath, <<"write">>)
        /\ Len(options.DRAFT) >= 2
        /\ \E l \in DOMAIN run[q].log :
              /\ LastWriteBefore(run[q], l, 2)
              /\ ~OpenedBy(run[q], 2, run[q].log[l].target)
              /\ run[q].fs[run[q].log[l].target] = run[q].log[l].text

\* C10: an output is opened for writing only right after the processing step
\* of the same file (strip_pagebreaks in strip-only mode, the DraftParser
\* otherwise) has returned, which follows the complete read of its input; a
\* file whose read or processing raised has no output opened, and until its
\* output is opened a file leaves all output files as they were.
C10_OpenAfterProcess ==
    \A q \in Runs :
        /\ \A k \in DOMAIN run[q].log :
              run[q].log[k].op = "open_w" =>
                 /\ k > 1
                 /\ run[q].log[k - 1].op = IF options.strip_only THEN "strip" ELSE "parse"
                 /\ run[q].log[k - 1].file = run[q].log[k].file
                 /\ \E j \in 1..(k - 1) :
                       run[q].log[j].op = "read" /\ run[q].log[j].file = run[q].log[k].file
        /\ \A k \in DOMAIN run[q].log :
              (run[q].log[k].op = "raise"
                 /\ run[q].log[k].text[1] \in {"open_r", "read", "strip", "parse"})
              => ~\E m \in DOMAIN run[q].log :
                     run[q].log[m].op = "open_w" /\ run[q].log[m].file = run[q].log[k].file
        /\ run[q].pc \in {"derive", "read", "process", "open"} =>
              ~\E m \in DOMAIN run[q].log :
                  run[q].log[m].op = "open_w" /\ run[q].log[m].file = run[q].i

C10_Witness ==
    \E q \in Runs :
        /\ run[q].i = 2
        /\ run[q].log # <<>>
        /\ run[q].log[Len(run[q].log)].op = "raise"
        /\ run[q].log[Len(run[q].log)].text[1] \in {"read", "strip"}
        /\ OpenedBy(run[q], 1, run[q].outf)
        /\ ~OpenedBy(run[q], 2, run[q].outf)
        /\ run[q].fs[run[q].outf] = StrippedText(options.DRAFT[1])

====
